---- MODULE Spec2Model ----
(***************************************************************************)
(* HomeRunOdds: the daily-persistence publishing flow.                     *)
(*                                                                         *)
(* One run of homerun_odds.main or update_public_feed.main validates the   *)
(* credential, loads the daily cache, fetches today's games and their      *)
(* props, processes and merges them with the cache, saves the cache and    *)
(* publishes.  Runs are sequential processes started by an external        *)
(* trigger; the wall clock advances independently of them.                 *)
(*                                                                         *)
(* Python dicts are modelled as TLA+ functions with string domains, so an  *)
(* optional key (odds_status, last_updated, note, over_odds ...) is a key  *)
(* that is or is not in DOMAIN and dict.get is Get.                        *)
(***************************************************************************)
EXTENDS Integers, Sequences, FiniteSets, TLC

VARIABLES
    now,          \* the wall clock, in ticks (datetime.now(eastern))
    cache_file,   \* daily_homerun_cache.json on disk
    output,       \* the files this run has published, file by file
    pc,           \* position of the current run in main()
    flow,         \* which script runs: "homerun_odds" or "update_public_feed"
    API_KEY,      \* homerun_odds.API_KEY of the current process
    cached_data,  \* main's local: what load_daily_cache returned
    api,          \* the upstream's answers to this run's requests
    games_data,   \* main's local: what get_games_data returned
    final_data,   \* main's local: the structure that is published
    requests,     \* the network requests this run has sent, in order
    effects,      \* file-system effects of this run: cache_read, cache_write, output
    cache_at_start, \* history: cache_file when the current run started
    today_str,    \* history: the date load_daily_cache read from the clock
    ever_saved    \* history: <<date, game_id>> of every game saved in a snapshot of that date

vars == <<now, cache_file, output, pc, flow, API_KEY, cached_data, api, games_data,
          final_data, requests, effects, cache_at_start, today_str, ever_saved>>

----------------------------------------------------------------------------
(* Bounds of the model *)

\* the clock runs over 0..MaxTime
MaxTime == 3
\* ticks per US-Eastern calendar day
DayLen == 2
\* the books that quote one player's side
MaxBooks == 2
\* the players one book quotes
MaxPlayers == 3

DateOf(t) == t \div DayLen

----------------------------------------------------------------------------
(* Python helpers *)

EmptyDict == <<>>

Get(d, k, default) == IF k \in DOMAIN d THEN d[k] ELSE default

\* d with d[k] = v (dict item assignment)
Put(d, k, v) == (k :> v) @@ d

Abs(x) == IF x < 0 THEN 0 - x ELSE x

Range(s) == {s[i] : i \in 1..Len(s)}

RECURSIVE SumSeq(_)
SumSeq(s) == IF s = <<>> THEN 0 ELSE Head(s) + SumSeq(Tail(s))

RECURSIVE Flatten(_)
Flatten(ss) == IF ss = <<>> THEN <<>> ELSE Head(ss) \o Flatten(Tail(ss))

\* the elements of s, each kept at its first occurrence (dict insertion order)
RECURSIVE Distinct(_)
Distinct(s) ==
    IF s = <<>> THEN <<>>
    ELSE LET init == Distinct(SubSeq(s, 1, Len(s) - 1))
             last == s[Len(s)]
         IN IF last \in Range(init) THEN init ELSE Append(init, last)

----------------------------------------------------------------------------
(* Python float arithmetic.  A float is an IEEE-754 double: every division, *)
(* product, sum and difference is the exact result rounded to the nearest   *)
(* double, ties to even.  The mantissa has 53 bits, so it is kept in limbs. *)

\* a natural number below 2^72 as three limbs of 24 bits, lowest first
Limb == 16777216

Nat3(n) == <<n % Limb, n \div Limb, 0>>

Zero3 == <<0, 0, 0>>

\* the number of bits of a limb
Bits(x) == CHOOSE k \in 0..24 : x < 2^k /\ (k = 0 \/ x >= 2^(k - 1))

BitLength(M) ==
    IF M[3] > 0 THEN 48 + Bits(M[3])
    ELSE IF M[2] > 0 THEN 24 + Bits(M[2])
    ELSE Bits(M[1])

Geq3(M, N) ==
    IF M[3] # N[3] THEN M[3] > N[3]
    ELSE IF M[2] # N[2] THEN M[2] > N[2]
    ELSE M[1] >= N[1]

Add3(M, N) ==
    LET t1 == M[1] + N[1]
        t2 == M[2] + N[2] + t1 \div Limb
        t3 == M[3] + N[3] + t2 \div Limb
    IN <<t1 % Limb, t2 % Limb, t3>>

\* M - N for M >= N
Sub3(M, N) ==
    LET t1 == M[1] - N[1]
        b1 == IF t1 < 0 THEN 1 ELSE 0
        t2 == M[2] - N[2] - b1
        b2 == IF t2 < 0 THEN 1 ELSE 0
    IN <<t1 + b1 * Limb, t2 + b2 * Limb, M[3] - N[3] - b2>>

\* M * c for a small c
Mul3(M, c) ==
    LET t1 == M[1] * c
        t2 == M[2] * c + t1 \div Limb
        t3 == M[3] * c + t2 \div Limb
    IN <<t1 % Limb, t2 % Limb, t3>>

\* M * 2^k
ShiftLeft(M, k) ==
    LET r == k % 24
        hi == 2^(24 - r)
        lo == 2^r
        n1 == (M[1] % hi) * lo
        n2 == (M[2] % hi) * lo + M[1] \div hi
        n3 == (M[3] % hi) * lo + M[2] \div hi
    IN CASE k \div 24 = 0 -> <<n1, n2, n3>>
         [] k \div 24 = 1 -> <<0, n1, n2>>
         [] OTHER -> <<0, 0, n1>>

\* M \div 2^k, and whether a one bit was shifted out
ShiftRight(M, k) ==
    LET q == k \div 24
        L == CASE q = 0 -> M
               [] q = 1 -> <<M[2], M[3], 0>>
               [] q = 2 -> <<M[3], 0, 0>>
               [] OTHER -> Zero3
        limbs_lost == \E i \in 1..3 : i <= q /\ M[i] # 0
        r == k % 24
        lo == 2^r
        hi == 2^(24 - r)
    IN [n |-> <<L[1] \div lo + (L[2] % lo) * hi,
                L[2] \div lo + (L[3] % lo) * hi,
                L[3] \div lo>>,
        lost |-> limbs_lost \/ L[1] % lo # 0]

\* a float is [m |-> M, e |-> e] of value M * 2^e with 2^52 <= M < 2^53, or
\* M = 0: an IEEE-754 double without its sign

\* the shifted number with its lowest bit set if a one bit was shifted out
Sticky(sh) ==
    IF sh.lost /\ sh.n[1] % 2 = 0 THEN <<sh.n[1] + 1, sh.n[2], sh.n[3]>> ELSE sh.n

\* M of len bits in 55 bits: the 53 of the mantissa, the guard bit and a
\* sticky bit
Widened(M, len) ==
    IF len > 55 THEN Sticky(ShiftRight(M, len - 55)) ELSE ShiftLeft(M, 55 - len)

\* the mantissa rounded to nearest on its two lower bits, ties to even
RoundUp(mantissa, rest) ==
    IF rest = 3 \/ (rest = 2 /\ mantissa[1] % 2 = 1)
    THEN Add3(mantissa, <<1, 0, 0>>) ELSE mantissa

\* a mantissa that rounding carried to 2^53 is 2^52 at the next exponent
Carried(rounded, e) ==
    IF rounded[3] >= 32 THEN [m |-> <<0, 0, 16>>, e |-> e + 1]
    ELSE [m |-> rounded, e |-> e]

Rounded(wide, e) == Carried(RoundUp(ShiftRight(wide, 2).n, wide[1] % 4), e)

\* the double nearest to M * 2^e, ties to even
RoundToDouble(M, e) ==
    IF M = Zero3 THEN [m |-> Zero3, e |-> 0]
    ELSE Rounded(Widened(M, BitLength(M)), e + BitLength(M) - 53)

FromInt(n) == RoundToDouble(Nat3(n), 0)

\* one step of long division in base 16: the next four bits of the quotient
\* q, and the remainder r; n counts the steps
DivisionStep(s, d) ==
    LET r16 == Mul3(s.r, 16)
        digit == CHOOSE k \in 0..15 :
                    Geq3(r16, Mul3(d, k)) /\ ~Geq3(r16, Mul3(d, k + 1))
    IN [q |-> Add3(Mul3(s.q, 16), <<digit, 0, 0>>),
        r |-> Sub3(r16, Mul3(d, digit)),
        n |-> s.n + 1]

\* the 56 bits of the quotient after the binary point, in 14 steps
RECURSIVE LongDivision(_, _)
LongDivision(s, d) ==
    IF s.n = 14 THEN s ELSE LongDivision(DivisionStep(s, d), d)

\* the bit of the quotient before the binary point
FirstStep(M, N) ==
    IF Geq3(M, N) THEN [q |-> <<1, 0, 0>>, r |-> Sub3(M, N), n |-> 0]
    ELSE [q |-> Zero3, r |-> M, n |-> 0]

\* the quotient with a sticky bit for a remainder, rounded
Quotient(done, e) ==
    RoundToDouble(Add3(Add3(done.q, done.q),
                       <<IF done.r = Zero3 THEN 0 ELSE 1, 0, 0>>), e)

\* x / y
FloatDiv(x, y) ==
    IF y.m # Zero3 /\ x.m = Zero3 THEN x
    ELSE Quotient(LongDivision(FirstStep(x.m, y.m), y.m), x.e - y.e - 57)

\* x * c for a small integer c
FloatMulInt(x, c) == RoundToDouble(Mul3(x.m, c), x.e)

\* both mantissas at the smaller exponent
Aligned(x, y, e) == [x |-> ShiftLeft(x.m, x.e - e), y |-> ShiftLeft(y.m, y.e - e), e |-> e]

Sum(a) == RoundToDouble(Add3(a.x, a.y), a.e)

FloatAdd(x, y) ==
    IF x.m = Zero3 THEN y
    ELSE IF y.m = Zero3 THEN x
    ELSE Sum(Aligned(x, y, IF x.e < y.e THEN x.e ELSE y.e))

Difference(a) == RoundToDouble(Sub3(a.x, a.y), a.e)

\* x - y for x >= y
FloatSub(x, y) ==
    IF y.m = Zero3 THEN x
    ELSE Difference(Aligned(x, y, IF x.e < y.e THEN x.e ELSE y.e))

\* x >= 0.5
AtLeastHalf(x) == x.m # Zero3 /\ x.e >= 0 - 53

\* the whole part of a number of limbs
Whole(n) == n[1] + n[2] * Limb

\* int(x)
Truncate(x) == Whole(ShiftRight(x.m, 0 - x.e).n)

----------------------------------------------------------------------------
(* Odds converter *)

\* lines 50-53: 100 / (odds + 100) for positive odds, abs(odds) / (abs(odds) + 100)
\* otherwise
american_to_probability(odds) ==
    FloatDiv(FromInt(IF odds > 0 THEN 100 ELSE Abs(odds)), FromInt(Abs(odds) + 100))

\* lines 57-60: -int(prob * 100 / (1 - prob)) from 0.5 on, int((1 - prob) * 100 / prob)
\* below; rest is 1 - prob
OddsOf(prob, rest) ==
    IF AtLeastHalf(prob)
    THEN 0 - Truncate(FloatDiv(FloatMulInt(prob, 100), rest))
    ELSE Truncate(FloatDiv(FloatMulInt(rest, 100), prob))

probability_to_american(prob) == OddsOf(prob, FloatSub(FromInt(1), prob))

\* sum(probabilities): the floats added one by one from the left
RECURSIVE SumFloats(_, _)
SumFloats(ps, start) ==
    IF ps = <<>> THEN start ELSE SumFloats(Tail(ps), FloatAdd(start, Head(ps)))

\* line 69: sum(probabilities) / len(probabilities)
avg_probability(probabilities) ==
    FloatDiv(SumFloats(probabilities, FromInt(0)), FromInt(Len(probabilities)))

\* faulty variant: the odds themselves are averaged, not their probabilities
mean_of_odds(odds_list) ==
    IF odds_list = <<>> THEN 0
    ELSE SumSeq(odds_list) \div Len(odds_list)

calculate_consensus_odds(odds_list) ==
    IF odds_list = <<>> THEN 0
    ELSE probability_to_american(avg_probability(
             [i \in 1..Len(odds_list) |-> american_to_probability(odds_list[i])]))

----------------------------------------------------------------------------
(* Upstream data.  A player name is a code whose order is the order of the *)
(* names; a line is in tenths (5 is the 0.5 line); a commence_time is the  *)
(* tick of the first pitch.                                                *)

MARKETS == "batter_home_runs"

\* outcome.get('point', 0.5)
DEFAULT_LINE == 5

\* f"{outcome_type.lower()}"
Lower(outcome_type) == IF outcome_type = "Over" THEN "over" ELSE "under"

\* f"{outcome_type.lower()}_odds"
OddsKey(outcome_type) == IF outcome_type = "Over" THEN "over_odds" ELSE "under_odds"

Outcome(player, name, price) ==
    [description |-> player, name |-> name, point |-> DEFAULT_LINE, price |-> price]

\* the bookmakers of an event's props at clock t
Props(t) ==
    <<[title |-> "DraftKings",
       markets |-> <<[key |-> MARKETS,
                      outcomes |-> <<Outcome(2, "Over", 300 + 100 * t),
                                     Outcome(2, "Under", 0 - 400),
                                     Outcome(1, "Over", 500)>>]>>],
      [title |-> "FanDuel",
       markets |-> <<[key |-> MARKETS,
                      outcomes |-> <<Outcome(2, "Over", 300)>>]>>]>>

\* every price the upstream quotes while the clock runs
UpstreamPrices ==
    UNION {{market.outcomes[o].price : o \in 1..Len(market.outcomes)} :
              market \in UNION {{Props(t)[b].markets[1] : b \in 1..Len(Props(t))} :
                                   t \in 0..MaxTime}}

----------------------------------------------------------------------------
(* Props processor *)

\* American odds a book may quote, even money on either side among them
QuotedOdds == {0 - 400, 0 - 150, 0 - 100, 100, 130, 300, 450, 500}

\* what the book quotes a player: <<Over, Under>>, an Under of 0 being no quote
PlayerQuotes ==
    {<<500, 0>>, <<300, 0 - 400>>, <<500, 0 - 400>>, <<130, 160>>, <<130, 0 - 150>>}

\* every price a book quotes in the runs, the converter runs and the exporter runs
QuotedAnywhere ==
    UpstreamPrices \cup QuotedOdds \cup {quote[1] : quote \in PlayerQuotes}
                   \cup ({quote[2] : quote \in PlayerQuotes} \ {0})

\* the consensus of every list of prices that the books of one player's side
\* can quote, each computed once
ConsensusTable ==
    {<<odds_values, calculate_consensus_odds(odds_values)>> :
        odds_values \in {<<a>> : a \in QuotedAnywhere}
                        \cup {<<a, b>> : a \in UpstreamPrices, b \in UpstreamPrices}
                        \cup UNION {[1..n -> QuotedOdds] : n \in 1..MaxBooks}}

\* line 388: consensus_odds = calculate_consensus_odds(odds_values)
consensus_odds(odds_values) ==
    (CHOOSE known \in ConsensusTable : known[1] = odds_values)[2]

\* every market of the game, bookmaker by bookmaker
MarketsOf(game) ==
    LET bookmakers == Get(game, "bookmakers", <<>>)
    IN Flatten([b \in 1..Len(bookmakers) |-> Get(bookmakers[b], "markets", <<>>)])

\* lines 309-320: the first market with the target key, if any
HasHomeRunMarket(game) ==
    \E i \in 1..Len(MarketsOf(game)) : MarketsOf(game)[i].key = MARKETS

\* lines 337-348: the target-market outcomes in bookmaker, market, outcome order
OutcomeEntries(game) ==
    LET bookmakers == Get(game, "bookmakers", <<>>)
        OfMarket(bookmaker, market) ==
            LET outcomes == Get(market, "outcomes", <<>>)
            IN [o \in 1..Len(outcomes) |->
                  [sportsbook |-> bookmaker.title,
                   player_name |-> outcomes[o].description,
                   line |-> Get(outcomes[o], "point", DEFAULT_LINE),
                   outcome_type |-> outcomes[o].name,
                   odds |-> outcomes[o].price]]
        OfBookmaker(bookmaker) ==
            LET markets == SelectSeq(Get(bookmaker, "markets", <<>>),
                                     LAMBDA market : market.key = MARKETS)
            IN Flatten([m \in 1..Len(markets) |-> OfMarket(bookmaker, markets[m])])
    IN Flatten([b \in 1..Len(bookmakers) |-> OfBookmaker(bookmakers[b])])

\* faulty variant: the consensus is taken when the first book's odds arrive and
\* not again when another book's are appended
ConsensusOfFirstBook(odds_list) ==
    [consensus |-> consensus_odds(<<odds_list[1].odds>>),
     individual_books |-> odds_list]

\* lines 386-393: the consensus of one outcome type beside the odds it comes from
OutcomeOdds(odds_list) ==
    [consensus |-> consensus_odds([i \in 1..Len(odds_list) |-> odds_list[i].odds]),
     individual_books |-> odds_list]

\* lines 350-393: one player_props entry turned into a processed player
ProcessedPlayer(entries, player_key) ==
    LET mine == SelectSeq(entries, LAMBDA e : <<e.player_name, e.line>> = player_key)
        sportsbooks == Distinct([i \in 1..Len(mine) |-> mine[i].sportsbook])
        outcome_types == Distinct([i \in 1..Len(mine) |-> mine[i].outcome_type])
        OddsList(outcome_type) ==
            LET of_type == SelectSeq(mine, LAMBDA e : e.outcome_type = outcome_type)
            IN [i \in 1..Len(of_type) |->
                  [sportsbook |-> of_type[i].sportsbook, odds |-> of_type[i].odds]]
        \* the latest entry of a book for an outcome type wins
        LastOf(book, outcome_type) ==
            LET its == SelectSeq(mine, LAMBDA e : e.sportsbook = book
                                                  /\ e.outcome_type = outcome_type)
            IN its[Len(its)].odds
        TypesOf(book) ==
            {mine[i].outcome_type : i \in {j \in 1..Len(mine) : mine[j].sportsbook = book}}
        odds_by_book ==
            [book \in Range(sportsbooks) |->
                [k \in {Lower(t) : t \in TypesOf(book)} |->
                    LastOf(book, CHOOSE t \in TypesOf(book) : Lower(t) = k)]]
        sides ==
            [k \in {OddsKey(t) : t \in Range(outcome_types)} |->
                OutcomeOdds(OddsList(CHOOSE t \in Range(outcome_types) : OddsKey(t) = k))]
    IN sides @@
       [player_name |-> player_key[1],
        line |-> player_key[2],
        line_display |-> IF player_key[2] # DEFAULT_LINE
                         THEN ToString(player_key[2]) ELSE "To Hit HR",
        sportsbook_count |-> Len(sportsbooks),
        sportsbooks |-> sportsbooks,
        odds_by_book |-> odds_by_book]

\* faulty variant: the players stay in the order of their first outcome
KeepOrder(players) == players

\* list.sort(key=player_name): a stable insertion sort
RECURSIVE SortByName(_)
SortByName(players) ==
    IF players = <<>> THEN <<>>
    ELSE LET init == SortByName(SubSeq(players, 1, Len(players) - 1))
             last == players[Len(players)]
             keep == Cardinality({i \in 1..Len(init) :
                                     init[i].player_name <= last.player_name})
         IN SubSeq(init, 1, keep) \o <<last>> \o SubSeq(init, keep + 1, Len(init))

\* lines 325-407: the game_data of one retained game
ProcessedGame(game) ==
    LET entries == OutcomeEntries(game)
        player_keys == Distinct([i \in 1..Len(entries) |->
                                    <<entries[i].player_name, entries[i].line>>])
    IN [game_id |-> game.id,
        away_team |-> game.away_team,
        home_team |-> game.home_team,
        commence_time |-> game.commence_time,
        game_time_formatted |-> <<"%I:%M %p %Z", game.commence_time>>,
        players |-> SortByName([i \in 1..Len(player_keys) |->
                                   ProcessedPlayer(entries, player_keys[i])])]

\* the subscripts of lines 304-348 that raise KeyError on this game: the team
\* names and the start time are read of every game, market['key'] of every
\* market, and game['id'], bookmaker['title'] and the outcomes' description,
\* name and price only of a game that has the target market
GameRaises(game) ==
    \/ ~({"away_team", "home_team", "commence_time"} \subseteq DOMAIN game)
    \/ \E i \in 1..Len(MarketsOf(game)) : "key" \notin DOMAIN MarketsOf(game)[i]
    \/ /\ HasHomeRunMarket(game)
       /\ \/ "id" \notin DOMAIN game
          \/ \E b \in 1..Len(game.bookmakers) : "title" \notin DOMAIN game.bookmakers[b]
          \/ \E b \in 1..Len(game.bookmakers) :
                \E m \in 1..Len(Get(game.bookmakers[b], "markets", <<>>)) :
                   LET market == game.bookmakers[b].markets[m]
                   IN /\ market.key = MARKETS
                      /\ \E o \in 1..Len(Get(market, "outcomes", <<>>)) :
                            ~({"description", "name", "price"}
                                 \subseteq DOMAIN market.outcomes[o])

\* process_home_run_props has no except clause: the first KeyError leaves it
ProcessorRaises(raw_games) ==
    \E i \in 1..Len(raw_games) : GameRaises(raw_games[i])

\* lines 299-407: the games that have the target market, processed
ProcessedGames(raw_games) ==
    LET retained == SelectSeq(raw_games, HasHomeRunMarket)
    IN [i \in 1..Len(retained) |-> ProcessedGame(retained[i])]

\* lines 282-297, 409-415: the result around the processed games
ProcessedData(raw_games, games, date, clock) ==
    [metadata |-> [generated_at |-> clock,
                   date |-> date,
                   timezone |-> "US/Eastern",
                   sport |-> "baseball_mlb",
                   market |-> MARKETS],
     summary |-> [total_games |-> Len(raw_games),
                  games_with_props |-> Len(games),
                  total_players |-> SumSeq([i \in 1..Len(games) |-> Len(games[i].players)])],
     games |-> games]

\* faulty variant: the snapshot is dated by the UTC date, a day ahead in the evening
process_dates_in_utc(raw_games, clock) ==
    ProcessedData(raw_games, ProcessedGames(raw_games), DateOf(clock + 1), clock)

process_home_run_props(raw_games, clock) ==
    ProcessedData(raw_games, ProcessedGames(raw_games), DateOf(clock), clock)

----------------------------------------------------------------------------
(* Fetching.  An answer of the upstream is [raised |-> TRUE] when the      *)
(* request raises, else [raised |-> FALSE, status_code |-> n, json |-> j]. *)

\* lines 233-242: some bookmaker has the target market with outcomes
has_props(props_data) ==
    LET bookmakers == Get(props_data, "bookmakers", <<>>)
    IN \E b \in 1..Len(bookmakers) :
          \E m \in 1..Len(Get(bookmakers[b], "markets", <<>>)) :
             LET market == bookmakers[b].markets[m]
             IN market.key = MARKETS /\ Get(market, "outcomes", <<>>) # <<>>

\* faulty variant: the first failing detail request ends the loop
RECURSIVE PropsLoopAborting(_, _, _, _)
PropsLoopAborting(today_games, events, i, acc) ==
    IF i > Len(today_games) THEN acc
    ELSE LET game == today_games[i]
             props_response == events[game.id]
             sent == Append(acc.sent, [url |-> "events", event_id |-> game.id])
         IN IF props_response.raised \/ props_response.status_code # 200
            THEN [games_with_props |-> acc.games_with_props, sent |-> sent]
            ELSE PropsLoopAborting(today_games, events, i + 1,
                    [games_with_props |->
                        IF has_props(props_response.json)
                        THEN Append(acc.games_with_props,
                                    [id |-> game.id,
                                     commence_time |-> game.commence_time,
                                     home_team |-> game.home_team,
                                     away_team |-> game.away_team,
                                     bookmakers |-> props_response.json.bookmakers])
                        ELSE acc.games_with_props,
                     sent |-> sent])

\* lines 209-266: the loop over today's games; acc holds games_with_props and the
\* requests sent so far
RECURSIVE PropsLoop(_, _, _, _)
PropsLoop(today_games, events, i, acc) ==
    IF i > Len(today_games) THEN acc
    ELSE LET game == today_games[i]
             props_response == events[game.id]
             sent == Append(acc.sent, [url |-> "events", event_id |-> game.id])
             found ==
                 IF /\ ~props_response.raised
                    /\ props_response.status_code = 200
                    /\ has_props(props_response.json)
                 THEN Append(acc.games_with_props,
                             [id |-> game.id,
                              commence_time |-> game.commence_time,
                              home_team |-> game.home_team,
                              away_team |-> game.away_team,
                              bookmakers |-> props_response.json.bookmakers])
                 ELSE acc.games_with_props
         IN PropsLoop(today_games, events, i + 1,
                      [games_with_props |-> found, sent |-> sent])

\* returns the list get_games_data returns (ret) and the requests it sent (sent)
get_games_data(answers, clock) ==
    LET date_str == DateOf(clock)
        games_response == answers.games
        first == <<[url |-> "odds"]>>
    IN IF games_response.raised \/ games_response.status_code >= 400
       THEN [ret |-> <<>>, sent |-> first]
       ELSE LET today_games ==
                    SelectSeq(games_response.json,
                              LAMBDA game : DateOf(game.commence_time) = date_str)
            IN IF today_games = <<>>
               THEN [ret |-> <<>>, sent |-> first]
               ELSE LET done == PropsLoop(today_games, answers.events, 1,
                                          [games_with_props |-> <<>>, sent |-> first])
                    IN [ret |-> done.games_with_props, sent |-> done.sent]

----------------------------------------------------------------------------
(* Daily cache.  The file is [kind |-> "absent"], [kind |-> "garbage"]     *)
(* (unreadable or unparseable) or [kind |-> "json", doc |-> d].            *)

NoFile == [kind |-> "absent"]

\* faulty variant: the snapshot's date is not compared with today's
load_ignores_date(file, clock) ==
    IF file.kind = "json" THEN file.doc ELSE EmptyDict

load_daily_cache(file, clock) ==
    IF file.kind = "absent" THEN EmptyDict
    ELSE IF file.kind = "garbage" THEN EmptyDict
    ELSE LET cache_data == file.doc
             today == DateOf(clock)
         IN IF "metadata" \in DOMAIN cache_data
               /\ "date" \in DOMAIN cache_data.metadata
               /\ cache_data.metadata.date = today
            THEN cache_data
            ELSE EmptyDict

save_daily_cache(data) == [kind |-> "json", doc |-> data]

\* lines 112-113: the fresh games by game_id, a later duplicate replacing an earlier
new_games_lookup(new_data) ==
    LET games == Get(new_data, "games", <<>>)
        ids == Distinct([i \in 1..Len(games) |-> games[i].game_id])
        LastWith(id) == games[CHOOSE i \in 1..Len(games) :
                                 /\ games[i].game_id = id
                                 /\ \A j \in (i + 1)..Len(games) : games[j].game_id # id]
    IN [ids |-> ids, game |-> [id \in Range(ids) |-> LastWith(id)]]

\* faulty variant: the cache is ignored, so a game that left the fetch is lost
merge_drops_cached(new_data, cached) == new_data

\* faulty variant: a game in both keeps the players of its cached version
merge_keeps_cached_players(new_data, cached) ==
    IF cached = EmptyDict \/ Get(cached, "games", <<>>) = <<>>
    THEN new_data
    ELSE LET fresh == new_data.games
             cached_games == cached.games
             FreshIds == {fresh[i].game_id : i \in 1..Len(fresh)}
             CachedIds == {cached_games[i].game_id : i \in 1..Len(cached_games)}
             from_cache ==
                 [i \in 1..Len(cached_games) |->
                     IF cached_games[i].game_id \in FreshIds
                     THEN cached_games[i]
                     ELSE Put(cached_games[i], "odds_status", "cached")]
             added == SelectSeq(fresh, LAMBDA g : g.game_id \notin CachedIds)
         IN Put(new_data, "games", from_cache \o added)

\* faulty variant: the kept game is tagged but keeps the stamp it had
kept_with_old_stamp(cached_game, cached) ==
    Put(cached_game, "odds_status", "cached")

\* lines 124-133: the copy of a cached game that the fresh fetch lacks
kept_from_cache(cached_game, cached) ==
    Put(Put(cached_game, "odds_status", "cached"),
        "last_updated",
        Get(Get(cached, "metadata", EmptyDict), "generated_at", "unknown"))

\* faulty variant: the games new in the fetch are put before the cached ones
prepend_new_games(merged_games, added) == added \o merged_games

\* lines 135-140: merged_games.append(new_game) for each game new in the fetch
append_new_games(merged_games, added) == merged_games \o added

merge_with_cached_data(new_data, cached) ==
    IF cached = EmptyDict \/ Get(cached, "games", <<>>) = <<>>
    THEN new_data
    ELSE LET lookup == new_games_lookup(new_data)
             cached_games == cached.games
             \* lines 119-133
             from_cache ==
                 [i \in 1..Len(cached_games) |->
                     IF cached_games[i].game_id \in Range(lookup.ids)
                     THEN lookup.game[cached_games[i].game_id]
                     ELSE kept_from_cache(cached_games[i], cached)]
             \* lines 135-140
             added_ids ==
                 SelectSeq(lookup.ids,
                           LAMBDA id : \A i \in 1..Len(from_cache) :
                                          from_cache[i].game_id # id)
             added == [i \in 1..Len(added_ids) |->
                          Put(lookup.game[added_ids[i]], "odds_status", "live")]
             merged_games == append_new_games(from_cache, added)
             WithStatus(status) ==
                 Cardinality({i \in 1..Len(merged_games) :
                                 Get(merged_games[i], "odds_status", "none") = status})
         IN Put(Put(new_data, "games", merged_games),
                "summary",
                [total_games |-> Len(merged_games),
                 games_with_props |-> Len(merged_games),
                 total_players |->
                     SumSeq([i \in 1..Len(merged_games) |->
                                Len(Get(merged_games[i], "players", <<>>))]),
                 live_games |-> WithStatus("live"),
                 cached_games |-> WithStatus("cached")])


----------------------------------------------------------------------------
(* Feed exporters *)

\* faulty variant: the keys the metadata already has win over the new ones
KeepsFormat(metadata, format, description, use_case) ==
    metadata @@ [format |-> format, description |-> description, use_case |-> use_case]

\* {**data['metadata'], 'format': ..., ...}
WithFormat(metadata, format, description, use_case) ==
    Put(Put(Put(metadata, "format", format), "description", description),
        "use_case", use_case)

create_full_dataset(data) ==
    [metadata |-> WithFormat(data.metadata, "full_dataset",
                             "Complete home run props with all sportsbooks and lines",
                             "Full data analysis, comprehensive dashboards"),
     summary |-> data.summary,
     games |-> data.games]

create_summary_dataset(data) ==
    LET SummaryGame(game) ==
            LET summary_game ==
                    [game_id |-> game.game_id,
                     away_team |-> game.away_team,
                     home_team |-> game.home_team,
                     commence_time |-> game.commence_time,
                     game_time_formatted |-> game.game_time_formatted,
                     player_count |-> Len(game.players),
                     odds_status |-> Get(game, "odds_status", "unknown"),
                     players |-> [i \in 1..Len(game.players) |->
                                     [player_name |-> game.players[i].player_name,
                                      line_display |-> game.players[i].line_display,
                                      sportsbook_count |-> game.players[i].sportsbook_count]]]
            IN IF Get(game, "odds_status", "none") = "cached" /\ "last_updated" \in DOMAIN game
               THEN Put(summary_game, "last_updated", game.last_updated)
               ELSE summary_game
    IN [metadata |-> WithFormat(data.metadata, "summary",
                                "Lightweight summary with game info and player counts",
                                "Quick overview, mobile apps, initial page loads"),
        summary |-> data.summary,
        games |-> [i \in 1..Len(data.games) |-> SummaryGame(data.games[i])]]

\* game.get('odds_status') == 'cached' and game.get('last_updated')
CachedWithStamp(game) ==
    Get(game, "odds_status", "none") = "cached" /\ "last_updated" \in DOMAIN game

create_players_dataset(data) ==
    LET game_context(game) ==
            LET context ==
                    [game_id |-> game.game_id,
                     away_team |-> game.away_team,
                     home_team |-> game.home_team,
                     commence_time |-> game.commence_time,
                     game_time_formatted |-> game.game_time_formatted,
                     odds_status |-> Get(game, "odds_status", "unknown")]
            IN IF CachedWithStamp(game)
               THEN Put(context, "last_updated", game.last_updated)
               ELSE context
        all_players ==
            Flatten([g \in 1..Len(data.games) |->
                       [i \in 1..Len(data.games[g].players) |->
                           Put(data.games[g].players[i], "game_context",
                               game_context(data.games[g]))]])
    IN [metadata |-> WithFormat(data.metadata, "players",
                                "All player props with game context",
                                "Player comparison, fantasy applications, player-specific analysis"),
        summary |-> Put(data.summary, "total_entries", Len(all_players)),
        players |-> SortByName(all_players)]

\* player.get(side, {}).get('consensus', 0)
ConsensusOf(player, side) == Get(Get(player, side, EmptyDict), "consensus", 0)

\* a number of halves rounded to a whole number, ties to even
HalfEven(halves) ==
    IF halves.n[1] % 2 = 1 /\ (halves.lost \/ (halves.n[1] \div 2) % 2 = 1)
    THEN halves.n[1] \div 2 + 1 ELSE halves.n[1] \div 2

\* round(prob, 3) in thousandths: the double is rounded to three decimals on
\* its exact value, ties to even
Thousandths(prob) ==
    HalfEven(ShiftRight(Mul3(Mul3(Mul3(prob.m, 10), 10), 10), 0 - prob.e - 1))

\* lines 138-139: abs(odds) / (abs(odds) + 100) below 0, 100 / (odds + 100) otherwise
ExportedProbability(odds) ==
    FloatDiv(FromInt(IF odds < 0 THEN Abs(odds) ELSE 100), FromInt(Abs(odds) + 100))

\* the rounded probabilities of the consensus odds, and of no odds, each
\* computed once
ProbabilityTable ==
    {<<odds, Thousandths(ExportedProbability(odds))>> :
        odds \in {known[2] : known \in ConsensusTable} \cup {0}}

\* lines 158-159: round(yes_prob, 3)
implied_probability(odds) ==
    (CHOOSE known \in ProbabilityTable : known[1] = odds)[2]

\* faulty variant: of the books that share the highest odds, the last one
LastBestBook(books, default) ==
    IF books = <<>> THEN default
    ELSE LET last == CHOOSE i \in 1..Len(books) :
                        \A j \in 1..Len(books) :
                            /\ books[j].odds <= books[i].odds
                            /\ j > i => books[j].odds < books[i].odds
         IN [odds |-> books[last].odds, sportsbook |-> books[last].sportsbook]

\* max(individual_books, key=odds, default): the first book of the highest odds
BestBook(books, default) ==
    IF books = <<>> THEN default
    ELSE LET first == CHOOSE i \in 1..Len(books) :
                         \A j \in 1..Len(books) :
                             /\ books[j].odds <= books[i].odds
                             /\ j < i => books[j].odds < books[i].odds
         IN [odds |-> books[first].odds, sportsbook |-> books[first].sportsbook]

\* faulty variant: the magnitude of the yes side, whatever its size
value_of_yes_side(yes_odds, no_odds) == Abs(yes_odds)

\* line 172
value_score(yes_odds, no_odds) ==
    IF yes_odds > 150 THEN Abs(yes_odds)
    ELSE IF no_odds > 150 THEN Abs(no_odds) ELSE 0

\* faulty variant: a player with one side only is listed too
HasASide(player) ==
    ConsensusOf(player, "over_odds") # 0 \/ ConsensusOf(player, "under_odds") # 0

\* line 136: if yes_odds and no_odds
HasBothSides(player) ==
    ConsensusOf(player, "over_odds") # 0 /\ ConsensusOf(player, "under_odds") # 0

\* lines 131-179: the entry of one player of one game
BestOddsPlayer(game, player) ==
    LET yes_odds == ConsensusOf(player, "over_odds")
        no_odds == ConsensusOf(player, "under_odds")
        Books(side) == Get(Get(player, side, EmptyDict), "individual_books", <<>>)
        best_odds_player ==
            [player_name |-> player.player_name,
             line_display |-> player.line_display,
             game_info |-> <<game.away_team, " @ ", game.home_team>>,
             game_time |-> game.game_time_formatted,
             odds_status |-> Get(game, "odds_status", "unknown"),
             consensus_odds |-> [yes |-> yes_odds, no |-> no_odds],
             implied_probability |-> [yes |-> implied_probability(yes_odds),
                                      no |-> implied_probability(no_odds)],
             best_odds |-> [yes |-> BestBook(Books("over_odds"),
                                             [odds |-> yes_odds, sportsbook |-> "Consensus"]),
                            no |-> BestBook(Books("under_odds"),
                                            [odds |-> no_odds, sportsbook |-> "Consensus"])],
             sportsbook_count |-> player.sportsbook_count,
             value_score |-> value_score(yes_odds, no_odds)]
    IN IF CachedWithStamp(game)
       THEN Put(best_odds_player, "last_updated", game.last_updated)
       ELSE best_odds_player

\* list.sort(key=(-value_score, player_name)): a stable insertion sort
RECURSIVE SortByValue(_)
SortByValue(players) ==
    IF players = <<>> THEN <<>>
    ELSE LET init == SortByValue(SubSeq(players, 1, Len(players) - 1))
             last == players[Len(players)]
             keep == Cardinality({i \in 1..Len(init) :
                        \/ init[i].value_score > last.value_score
                        \/ /\ init[i].value_score = last.value_score
                           /\ init[i].player_name <= last.player_name})
         IN SubSeq(init, 1, keep) \o <<last>> \o SubSeq(init, keep + 1, Len(init))

create_best_odds_dataset(data) ==
    LET best_odds_players ==
            Flatten([g \in 1..Len(data.games) |->
                       LET listed == SelectSeq(data.games[g].players, HasBothSides)
                       IN [i \in 1..Len(listed) |-> BestOddsPlayer(data.games[g], listed[i])]])
    IN [metadata |-> WithFormat(data.metadata, "best_odds",
                                "Best odds and value bets ranked by favorability",
                                "Value betting, line shopping, odds comparison"),
        summary |-> Put(Put(data.summary, "total_entries", Len(best_odds_players)),
                        "high_value_bets",
                        Cardinality({i \in 1..Len(best_odds_players) :
                                        best_odds_players[i].value_score > 200})),
        players |-> SortByValue(best_odds_players)]

\* faulty variant: the players exporter writes game_context into the players
\* of its input, which the full export shares and the later exporters read
endpoints_of_touched_input(data) ==
    LET touched ==
            Put(data, "games",
                [g \in 1..Len(data.games) |->
                    Put(data.games[g], "players",
                        [i \in 1..Len(data.games[g].players) |->
                            Put(data.games[g].players[i], "game_context",
                                [game_id |-> data.games[g].game_id])])])
    IN [full |-> create_full_dataset(touched),
        summary |-> create_summary_dataset(touched),
        players |-> create_players_dataset(data),
        best_odds |-> create_best_odds_dataset(touched)]

\* update_public_feed.generate_api_endpoints: file name |-> content
generate_api_endpoints(data) ==
    [full |-> create_full_dataset(data),
     summary |-> create_summary_dataset(data),
     players |-> create_players_dataset(data),
     best_odds |-> create_best_odds_dataset(data)]

----------------------------------------------------------------------------
(* The upstream.  Games A and B are played on day 0 and game C on day 1;   *)
(* the bulk list holds the games of later days and those of today's games  *)
(* that have not started; prices move with the clock.                      *)

GameIds == {"A", "B", "C"}

ListOrder == <<"A", "B", "C">>

CommenceTime(id) == IF id = "C" THEN 2 * DayLen - 1 ELSE DayLen - 1

ListedGame(id) ==
    [id |-> id,
     commence_time |-> CommenceTime(id),
     home_team |-> <<"home", id>>,
     away_team |-> <<"away", id>>]

Raised == [raised |-> TRUE]

Ok(json) == [raised |-> FALSE, status_code |-> 200, json |-> json]

Failed(code) == [raised |-> FALSE, status_code |-> code, json |-> EmptyDict]

\* the games the bulk list may hold at clock t, in commence order: the games
\* of later days and any of today's games (a game leaves the list when it starts)
Listings(t) ==
    LET later == {id \in GameIds : DateOf(CommenceTime(id)) > DateOf(t)}
        today == {id \in GameIds : DateOf(CommenceTime(id)) = DateOf(t)}
    IN {SelectSeq(ListOrder, LAMBDA id : id \in S \cup later) : S \in SUBSET today}

\* what the upstream may answer to a run's requests at clock t: the bulk request
\* fails, or it lists games and each listed event's detail request fails or
\* returns the props at t
ApiAnswers(t) ==
    {[games |-> Raised, events |-> [id \in GameIds |-> Raised]]}
    \cup
    {[games |-> Ok([i \in 1..Len(listing) |-> ListedGame(listing[i])]),
      events |-> [id \in GameIds |->
                     IF id \in Range(listing) /\ id \notin failing
                     THEN Ok([bookmakers |-> Props(t)])
                     ELSE Failed(500)]] :
        listing \in Listings(t),
        failing \in SUBSET {id \in GameIds : DateOf(CommenceTime(id)) = DateOf(t)}}

----------------------------------------------------------------------------
(* The runs *)

NoData == EmptyDict

NoAnswers == EmptyDict

Init ==
    /\ now = 0
    /\ cache_file \in {NoFile, [kind |-> "garbage"]}
    /\ output = EmptyDict
    /\ pc = "idle"
    /\ flow = "none"
    /\ API_KEY = FALSE
    /\ cached_data = EmptyDict
    /\ api = NoAnswers
    /\ games_data = <<>>
    /\ final_data = NoData
    /\ requests = <<>>
    /\ effects = {}
    /\ cache_at_start = cache_file
    /\ today_str = 0
    /\ ever_saved = {}

\* the wall clock advances
Tick ==
    /\ now < MaxTime
    /\ now' = now + 1
    /\ UNCHANGED <<cache_file, output, pc, flow, API_KEY, cached_data, api, games_data,
                   final_data, requests, effects, cache_at_start, today_str, ever_saved>>

\* the external trigger starts a script; the module reads THE_ODDS_API_KEY
Start(script, key) ==
    /\ pc \in {"idle", "done", "exited", "crashed"}
    /\ pc' = "validate"
    /\ flow' = script
    /\ API_KEY' = key
    /\ cached_data' = EmptyDict
    /\ api' = NoAnswers
    /\ games_data' = <<>>
    /\ final_data' = NoData
    /\ requests' = <<>>
    /\ effects' = {}
    /\ output' = EmptyDict
    /\ cache_at_start' = cache_file
    /\ today_str' = 0
    /\ UNCHANGED <<now, cache_file, ever_saved>>

\* faulty variant: the missing key is reported but the process goes on
validate_without_exit ==
    /\ pc = "validate"
    /\ pc' = "load"
    /\ UNCHANGED <<now, cache_file, output, flow, API_KEY, cached_data, api, games_data,
                   final_data, requests, effects, cache_at_start, today_str, ever_saved>>

validate_api_key ==
    /\ pc = "validate"
    /\ pc' = IF ~API_KEY THEN "exited" ELSE "load"
    /\ UNCHANGED <<now, cache_file, output, flow, API_KEY, cached_data, api, games_data,
                   final_data, requests, effects, cache_at_start, today_str, ever_saved>>

\* faulty variant: no except clause, so an unparseable file ends the process
LoadCacheUnguarded ==
    /\ pc = "load"
    /\ cached_data' = load_daily_cache(cache_file, now)
    /\ today_str' = DateOf(now)
    /\ effects' = effects \cup {"cache_read"}
    /\ pc' = IF cache_file.kind = "garbage" THEN "exited" ELSE "fetch"
    /\ UNCHANGED <<now, cache_file, output, flow, API_KEY, api, games_data,
                   final_data, requests, cache_at_start, ever_saved>>

\* cached_data = load_daily_cache()
LoadCache ==
    /\ pc = "load"
    /\ cached_data' = load_daily_cache(cache_file, now)
    /\ today_str' = DateOf(now)
    /\ effects' = effects \cup {"cache_read"}
    /\ pc' = "fetch"
    /\ UNCHANGED <<now, cache_file, output, flow, API_KEY, api, games_data,
                   final_data, requests, cache_at_start, ever_saved>>

\* games_data = get_games_data(), the upstream answering with answers
FetchWith(answers) ==
    /\ pc = "fetch"
    /\ LET got == get_games_data(answers, now)
       IN /\ api' = answers
          /\ games_data' = got.ret
          /\ requests' = requests \o got.sent
    /\ pc' = "publish"
    /\ UNCHANGED <<now, cache_file, output, flow, API_KEY, cached_data,
                   final_data, effects, cache_at_start, today_str, ever_saved>>

Fetch == \E answers \in ApiAnswers(now) : FetchWith(answers)

\* faulty variant: the fallback publishes the cache without the note
PublishedWithoutNote(fresh, cached, clock) ==
    IF fresh # <<>>
    THEN merge_with_cached_data(process_home_run_props(fresh, clock), cached)
    ELSE Put(cached, "metadata", Put(cached.metadata, "generated_at", clock))

\* lines 508-526 of homerun_odds.main, 330-348 of update_public_feed.main: the
\* structure to publish when there is fresh or cached data
PublishedData(fresh, cached, clock) ==
    IF fresh # <<>>
    THEN merge_with_cached_data(process_home_run_props(fresh, clock), cached)
    ELSE Put(cached, "metadata",
             Put(Put(cached.metadata, "generated_at", clock),
                 "note", "Using cached odds - API returned no data"))

\* update_public_feed.main lines 350-371
EmptyStructure(clock) ==
    [metadata |-> [generated_at |-> clock,
                   date |-> DateOf(clock),
                   timezone |-> "US/Eastern",
                   sport |-> "baseball_mlb",
                   market |-> "batter_home_runs",
                   note |-> "No data available"],
     summary |-> [total_games |-> 0,
                  games_with_props |-> 0,
                  total_players |-> 0,
                  live_games |-> 0,
                  cached_games |-> 0],
     games |-> <<>>]

SavedIds(data) ==
    {<<data.metadata.date, data.games[i].game_id>> : i \in 1..Len(data.games)}

\* the rest of homerun_odds.main
homerun_odds_main ==
    /\ pc = "publish"
    /\ flow = "homerun_odds"
    /\ pc' = IF games_data # <<>> /\ ProcessorRaises(games_data) THEN "crashed" ELSE "done"
    /\ IF games_data # <<>> /\ ProcessorRaises(games_data)
       THEN UNCHANGED <<final_data, output, effects, cache_file, ever_saved>>
       ELSE IF games_data # <<>>
       THEN /\ final_data' = PublishedData(games_data, cached_data, now)
            /\ cache_file' = save_daily_cache(final_data')
            /\ ever_saved' = ever_saved \cup SavedIds(final_data')
            /\ output' = [homerun_data |-> final_data']
            /\ effects' = effects \cup {"cache_write", "output"}
       ELSE IF cached_data # EmptyDict
       THEN /\ final_data' = PublishedData(games_data, cached_data, now)
            /\ output' = [homerun_data |-> final_data']
            /\ effects' = effects \cup {"output"}
            /\ UNCHANGED <<cache_file, ever_saved>>
       ELSE UNCHANGED <<final_data, output, effects, cache_file, ever_saved>>
    /\ UNCHANGED <<now, flow, API_KEY, cached_data, api, games_data, requests,
                   cache_at_start, today_str>>

\* the rest of update_public_feed.main
update_public_feed_main ==
    /\ pc = "publish"
    /\ flow = "update_public_feed"
    /\ pc' = IF games_data # <<>> /\ ProcessorRaises(games_data) THEN "crashed" ELSE "done"
    /\ IF games_data # <<>> /\ ProcessorRaises(games_data)
       THEN UNCHANGED <<final_data, output, effects, cache_file, ever_saved>>
       ELSE IF games_data # <<>>
       THEN /\ final_data' = PublishedData(games_data, cached_data, now)
            /\ cache_file' = save_daily_cache(final_data')
            /\ ever_saved' = ever_saved \cup SavedIds(final_data')
            /\ output' = generate_api_endpoints(final_data')
            /\ effects' = effects \cup {"cache_write", "output"}
       ELSE /\ final_data' = IF cached_data # EmptyDict
                             THEN PublishedData(games_data, cached_data, now)
                             ELSE EmptyStructure(now)
            /\ output' = generate_api_endpoints(final_data')
            /\ effects' = effects \cup {"output"}
            /\ UNCHANGED <<cache_file, ever_saved>>
    /\ UNCHANGED <<now, flow, API_KEY, cached_data, api, games_data, requests,
                   cache_at_start, today_str>>

Next ==
    \/ Tick
    \/ \E script \in {"homerun_odds", "update_public_feed"}, key \in BOOLEAN :
          Start(script, key)
    \/ validate_api_key
    \/ LoadCache
    \/ Fetch
    \/ homerun_odds_main
    \/ update_public_feed_main

\* get_games_data on its own, over every kind of answer of the upstream

\* the detail answers an event may get at clock t
DetailAnswersAt(t) ==
    {Raised, Failed(500), Failed(422),
     Ok(EmptyDict),
     Ok([bookmakers |-> <<[title |-> "DraftKings",
                           markets |-> <<[key |-> "h2h", outcomes |-> <<>>]>>]>>]),
     Ok([bookmakers |-> <<[title |-> "DraftKings",
                           markets |-> <<[key |-> MARKETS, outcomes |-> <<>>]>>]>>]),
     Ok([bookmakers |-> Props(t)])}

AnswersAt(t) ==
    {[games |-> bulk, events |-> [id \in GameIds |-> Raised]] :
        bulk \in {Raised, Failed(500)}}
    \cup
    {[games |-> Ok([i \in 1..Len(listing) |-> ListedGame(listing[i])]),
      events |-> [id \in GameIds |->
                     IF id \in Range(listing) THEN detail[id] ELSE Failed(404)]] :
        listing \in Listings(t),
        detail \in [GameIds -> DetailAnswersAt(t)]}

InitFetch ==
    /\ now \in 0..MaxTime
    /\ api \in AnswersAt(now)
    /\ pc = "fetch"
    /\ cache_file = NoFile
    /\ output = EmptyDict
    /\ flow = "homerun_odds"
    /\ API_KEY = TRUE
    /\ cached_data = EmptyDict
    /\ games_data = <<>>
    /\ final_data = NoData
    /\ requests = <<>>
    /\ effects = {"cache_read"}
    /\ cache_at_start = cache_file
    /\ today_str = DateOf(now)
    /\ ever_saved = {}

FetchGiven == FetchWith(api)

SpecFetch == InitFetch /\ [][FetchGiven]_vars

\* process_home_run_props on its own, called by either main on a list of raw
\* games, well-formed or not

\* d without the key k
Without(d, k) == [x \in DOMAIN d \ {k} |-> d[x]]

OneBook(title, market_key, outcomes) ==
    <<[title |-> title, markets |-> <<[key |-> market_key, outcomes |-> outcomes]>>]>>

\* the bookmakers a raw game may carry: props, no bookmaker, another market
\* only, the target market without outcomes, and props followed by a bookmaker
\* with a record that lacks a field
BookmakerData ==
    {Props(0),
     <<>>,
     OneBook("DraftKings", "h2h", <<>>),
     OneBook("DraftKings", MARKETS, <<>>),
     OneBook("DraftKings", MARKETS,
             <<Outcome(1, "Over", 500), Put(Outcome(1, "Over", 300), "point", 15)>>),
     Props(0) \o OneBook("BetMGM", MARKETS, <<Without(Outcome(3, "Over", 450), "price")>>),
     Props(0) \o OneBook("BetMGM", MARKETS, <<Without(Outcome(3, "Over", 450), "description")>>),
     Props(0) \o OneBook("BetMGM", MARKETS, <<Without(Outcome(3, "Over", 450), "name")>>),
     Props(0) \o <<Without(OneBook("BetMGM", MARKETS, <<Outcome(3, "Over", 450)>>)[1], "title")>>}

RawGames(id) ==
    {Put(ListedGame(id), "bookmakers", bookmakers) : bookmakers \in BookmakerData}
    \cup {Without(Put(ListedGame(id), "bookmakers", Props(0)), "id"),
          Without(Put(ListedGame(id), "bookmakers", Props(0)), "commence_time")}

ProcessorInputs ==
    {<<a>> : a \in RawGames("A")}
    \cup {<<a, b>> : a \in RawGames("A"), b \in RawGames("B")}

InitProcess ==
    /\ now = 0
    /\ games_data \in ProcessorInputs
    /\ flow \in {"homerun_odds", "update_public_feed"}
    /\ pc = "publish"
    /\ cache_file = NoFile
    /\ output = EmptyDict
    /\ API_KEY = TRUE
    /\ cached_data = EmptyDict
    /\ api = NoAnswers
    /\ final_data = NoData
    /\ requests = <<>>
    /\ effects = {"cache_read"}
    /\ cache_at_start = cache_file
    /\ today_str = DateOf(now)
    /\ ever_saved = {}

NextProcess == homerun_odds_main \/ update_public_feed_main

SpecProcess == InitProcess /\ [][NextProcess]_vars

\* the odds converter as the processor applies it: one game in which each of
\* up to MaxBooks books quotes a price for the same player and side, the first
\* book quoting the other side too or not

BookTitles == <<"DraftKings", "FanDuel", "BetMGM", "Caesars">>

QuotedBy(prices, under) ==
    [i \in 1..Len(prices) |->
        [title |-> BookTitles[i],
         markets |-> <<[key |-> MARKETS,
                        outcomes |-> <<Outcome(1, "Over", prices[i])>>
                                     \o (IF i = 1 THEN under ELSE <<>>)]>>]]

InitOdds ==
    /\ now = 0
    /\ games_data \in {<<Put(ListedGame("A"), "bookmakers", QuotedBy(prices, under))>> :
                          prices \in UNION {[1..n -> QuotedOdds] : n \in 1..MaxBooks},
                          under \in {<<>>, <<Outcome(1, "Under", 0 - 100)>>}}
    /\ flow \in {"homerun_odds", "update_public_feed"}
    /\ pc = "publish"
    /\ cache_file = NoFile
    /\ output = EmptyDict
    /\ API_KEY = TRUE
    /\ cached_data = EmptyDict
    /\ api = NoAnswers
    /\ final_data = NoData
    /\ requests = <<>>
    /\ effects = {"cache_read"}
    /\ cache_at_start = cache_file
    /\ today_str = DateOf(now)
    /\ ever_saved = {}

SpecOdds == InitOdds /\ [][NextProcess]_vars

\* the exporters of the public feed on one game in which one book quotes
\* MaxPlayers players, each on both sides or on Over alone, and a second book
\* may quote the first player's Over

QuotedPlayers(quotes) ==
    <<[title |-> "DraftKings",
       markets |-> <<[key |-> MARKETS,
                      outcomes |-> Flatten([p \in 1..MaxPlayers |->
                          IF quotes[p][2] = 0
                          THEN <<Outcome(p, "Over", quotes[p][1])>>
                          ELSE <<Outcome(p, "Over", quotes[p][1]),
                                 Outcome(p, "Under", quotes[p][2])>>])]>>]>>

InitExport ==
    /\ now = 0
    /\ games_data \in {<<Put(ListedGame("A"), "bookmakers",
                               QuotedPlayers(quotes) \o second)>> :
                          quotes \in [1..MaxPlayers -> PlayerQuotes],
                          second \in {<<>>, OneBook("FanDuel", MARKETS,
                                                    <<Outcome(1, "Over", 300)>>)}}
    /\ flow = "update_public_feed"
    /\ pc = "publish"
    /\ cache_file = NoFile
    /\ output = EmptyDict
    /\ API_KEY = TRUE
    /\ cached_data = EmptyDict
    /\ api = NoAnswers
    /\ final_data = NoData
    /\ requests = <<>>
    /\ effects = {"cache_read"}
    /\ cache_at_start = cache_file
    /\ today_str = DateOf(now)
    /\ ever_saved = {}

SpecExport == InitExport /\ [][update_public_feed_main]_vars

Spec == Init /\ [][Next]_vars


----------------------------------------------------------------------------
(* Properties of the publishing runs *)

GameIdsOf(data) ==
    {data.games[i].game_id : i \in 1..Len(Get(data, "games", <<>>))}

\* the published files that list games: the full and the summary feed, and the
\* one file of homerun_odds.main
GameFiles == {file \in DOMAIN output : "games" \in DOMAIN output[file]}

\* the ids of the games this run's fetch returned
FetchedIds == {games_data[i].id : i \in 1..Len(games_data)}

\* the run has ended and all its clock readings fell on the date it loaded the cache on
RunOnOneDate == pc = "done" /\ DateOf(now) = today_str

\* C1: over the runs of one date, a game id once in the saved snapshot is in the
\* output of every later run of that date: every file the run publishes that
\* lists games holds a game with that id, whatever the fetch returned
C1_SavedGamesStayPublished ==
    RunOnOneDate =>
        \A saved \in ever_saved :
            saved[1] = today_str =>
                /\ "output" \in effects
                /\ saved[2] \in GameIdsOf(final_data)
                /\ \A file \in GameFiles : saved[2] \in GameIdsOf(output[file])

\* a run whose fetch returned another game but no longer the saved one
C1_Witness ==
    /\ RunOnOneDate
    /\ games_data # <<>>
    /\ \E saved \in ever_saved :
          /\ saved[1] = today_str
          /\ saved[2] \in GameIdsOf(cached_data)
          /\ saved[2] \notin FetchedIds

StatusOf(game) == Get(game, "odds_status", "none")

\* C2: in the output of every run a game is live iff it was in that run's fetch
\* and cached iff it was only in the prior snapshot
C2_StatusIffFetched ==
    (pc = "done" /\ "output" \in effects) =>
        \A i \in 1..Len(final_data.games) :
            LET game == final_data.games[i]
            IN /\ StatusOf(game) = "live" <=> game.game_id \in FetchedIds
               /\ StatusOf(game) = "cached" <=>
                     (game.game_id \notin FetchedIds /\ game.game_id \in GameIdsOf(cached_data))

\* the fresh record of a fetched game: what process_home_run_props makes of it
FreshRecord(id) ==
    ProcessedGame(games_data[CHOOSE j \in 1..Len(games_data) : games_data[j].id = id])

\* C3: a game in both the prior snapshot and the fetch is merged as exactly its
\* fresh record, with nothing of its cached version left
C3_FreshReplacesCached ==
    (pc = "done" /\ games_data # <<>>) =>
        \A i \in 1..Len(final_data.games) :
            LET game == final_data.games[i]
            IN (game.game_id \in FetchedIds /\ game.game_id \in GameIdsOf(cached_data))
                  => game = FreshRecord(game.game_id)

\* a merged game whose cached version had other odds than the fresh one
C3_Witness ==
    /\ pc = "done"
    /\ games_data # <<>>
    /\ \E i \in 1..Len(final_data.games) :
          \E j \in 1..Len(Get(cached_data, "games", <<>>)) :
             /\ cached_data.games[j].game_id = final_data.games[i].game_id
             /\ final_data.games[i].game_id \in FetchedIds
             /\ cached_data.games[j].players # final_data.games[i].players


\* C4: after a merge with a non-empty prior snapshot, live_games is the number of
\* games in the fresh fetch and cached_games the number of prior games absent from it
C4_SummaryCounts ==
    (pc = "done" /\ games_data # <<>> /\ Get(cached_data, "games", <<>>) # <<>>) =>
        /\ final_data.summary.live_games = Len(games_data)
        /\ final_data.summary.cached_games =
              Cardinality(GameIdsOf(cached_data) \ FetchedIds)

\* C5: merging a saved snapshot with itself gives every game tagged live and the
\* same ids, order, players and odds
C5_SelfMergeAllLive ==
    cache_file.kind = "json" =>
        LET snapshot == cache_file.doc
            merged == merge_with_cached_data(snapshot, snapshot)
        IN /\ Len(merged.games) = Len(snapshot.games)
           /\ \A i \in 1..Len(merged.games) :
                 /\ StatusOf(merged.games[i]) = "live"
                 /\ merged.games[i].game_id = snapshot.games[i].game_id
                 /\ merged.games[i].players = snapshot.games[i].players

\* the cache file held, when the run started, a snapshot of another date than
\* the one load_daily_cache read from the clock
StaleCacheLoaded ==
    /\ "cache_read" \in effects
    /\ cache_at_start.kind = "json"
    /\ cache_at_start.doc.metadata.date # today_str

\* C6: a snapshot of another date is discarded by load_daily_cache, and no game
\* of it that the fetch did not return is in the run's output or saved cache
C6_StaleCacheDiscarded ==
    StaleCacheLoaded =>
        /\ cached_data = EmptyDict
        /\ pc = "done" =>
              /\ GameIdsOf(final_data) \subseteq FetchedIds
              /\ \A file \in DOMAIN output : GameIdsOf(output[file]) \subseteq FetchedIds
              /\ "cache_write" \in effects => GameIdsOf(cache_file.doc) \subseteq FetchedIds

\* a run on a later date that fetched games, with games of the day before in the cache
C6_Witness ==
    /\ StaleCacheLoaded
    /\ pc = "done"
    /\ "cache_write" \in effects
    /\ GameIdsOf(cache_at_start.doc) # {}
    /\ GameIdsOf(cache_at_start.doc) \cap GameIdsOf(final_data) = {}
    /\ games_data # <<>>

\* C7 as claimed: the first run that observes a new date leaves the cache file
\* dated with the new date, whatever its fetch returned
C7_CacheRedatedAlways ==
    (pc = "done" /\ StaleCacheLoaded) =>
        /\ cache_file.kind = "json"
        /\ cache_file.doc.metadata.date = today_str

\* C7 as amended: the first run that observes a new date ignores the snapshot of
\* the day before; when its fetch returns a game it overwrites the cache file
\* with what it publishes, dated with the date on which it processed the fetch;
\* when its fetch returns nothing the cache file stays as it was
C7_CacheRedatedOnFetch ==
    (pc = "done" /\ StaleCacheLoaded) =>
        /\ cached_data = EmptyDict
        /\ games_data # <<>> =>
              /\ cache_file = [kind |-> "json", doc |-> final_data]
              /\ cache_file.doc.metadata.date = DateOf(cache_file.doc.metadata.generated_at)
              /\ cache_file.doc.metadata.date >= today_str
              /\ GameIdsOf(cache_file.doc) = FetchedIds
        /\ games_data = <<>> =>
              /\ cache_file = cache_at_start
              /\ "cache_write" \notin effects

\* the first run of the new date fetched a game and replaced the snapshot
C7_Witness ==
    /\ pc = "done"
    /\ StaleCacheLoaded
    /\ games_data # <<>>
    /\ cache_file # cache_at_start
    /\ cache_file.doc.metadata.date = today_str

\* only the bulk request was sent: it failed or listed no game of today
BulkGaveNoGames == pc \in {"publish", "done"} /\ Len(requests) = 1

SameDayCache ==
    /\ cache_at_start.kind = "json"
    /\ cache_at_start.doc.metadata.date = today_str

\* the run published the games of the same-day snapshot with the note
PublishedCacheWithNote ==
    /\ "output" \in effects
    /\ final_data.games = cache_at_start.doc.games
    /\ Get(final_data.metadata, "note", "") = "Using cached odds - API returned no data"
    /\ \A file \in GameFiles : GameIdsOf(output[file]) = GameIdsOf(cache_at_start.doc)
    /\ \A file \in DOMAIN output :
          Get(output[file].metadata, "note", "") = "Using cached odds - API returned no data"

\* C8 as claimed: when the bulk fetch gives no games, a run with a same-day cache
\* publishes the cached games with a note, and a run without one publishes nothing
C8_FallbackOrNoOutput ==
    (pc = "done" /\ BulkGaveNoGames) =>
        IF SameDayCache THEN PublishedCacheWithNote
        ELSE "output" \notin effects /\ output = EmptyDict

\* C8 as amended: ... and a run without one publishes nothing in
\* homerun_odds.main, and in update_public_feed.main publishes the empty
\* structure: no games, zero counts, the note "No data available"
C8_FallbackOrEmptyFeed ==
    (pc = "done" /\ BulkGaveNoGames) =>
        IF SameDayCache THEN PublishedCacheWithNote
        ELSE IF flow = "homerun_odds"
             THEN "output" \notin effects /\ output = EmptyDict /\ final_data = NoData
             ELSE /\ "output" \in effects
                  /\ final_data.games = <<>>
                  /\ final_data.metadata.note = "No data available"
                  /\ final_data.summary = [total_games |-> 0, games_with_props |-> 0,
                                           total_players |-> 0, live_games |-> 0,
                                           cached_games |-> 0]
                  /\ output = generate_api_endpoints(final_data)

\* the bulk request failed and the run fell back on the same-day cache
C8_Witness ==
    /\ pc = "done"
    /\ BulkGaveNoGames
    /\ api.games.raised
    /\ SameDayCache
    /\ GameIdsOf(final_data) # {}

\* today's games of the bulk list, in list order
TodayGames ==
    IF api.games.raised \/ api.games.status_code # 200 THEN <<>>
    ELSE SelectSeq(api.games.json, LAMBDA game : DateOf(game.commence_time) = DateOf(now))

DetailSucceeds(id) ==
    /\ ~api.events[id].raised
    /\ api.events[id].status_code = 200
    /\ has_props(api.events[id].json)

\* C9: a detail request that raises or is answered with another status than 200
\* skips that game only: a detail request is sent for every game of today's list,
\* and the returned list is the games whose detail request succeeds with
\* target-market outcomes, in list order, each with the bookmakers of its answer
C9_OnlyFailedGameSkipped ==
    pc = "publish" =>
        LET succeeded == SelectSeq(TodayGames, LAMBDA game : DetailSucceeds(game.id))
        IN /\ requests = <<[url |-> "odds"]>>
                \o [i \in 1..Len(TodayGames) |->
                       [url |-> "events", event_id |-> TodayGames[i].id]]
           /\ Len(games_data) = Len(succeeded)
           /\ \A i \in 1..Len(succeeded) :
                 /\ games_data[i].id = succeeded[i].id
                 /\ games_data[i].commence_time = succeeded[i].commence_time
                 /\ games_data[i].bookmakers = api.events[succeeded[i].id].json.bookmakers

\* the first game's detail request raised and the second game was still returned
C9_Witness ==
    /\ pc = "publish"
    /\ Len(TodayGames) = 2
    /\ api.events[TodayGames[1].id].raised
    /\ games_data # <<>>
    /\ games_data[1].id = TodayGames[2].id

\* C10: the credential is checked before anything else: no request is sent and
\* no file is read or written before the check, and a process without the
\* credential ends in validate_api_key having done none of these
C10_NoKeyNoActivity ==
    /\ pc = "validate" =>
          requests = <<>> /\ effects = {} /\ output = EmptyDict /\ cache_file = cache_at_start
    /\ (pc # "idle" /\ ~API_KEY) =>
          /\ pc \in {"validate", "exited"}
          /\ requests = <<>>
          /\ effects = {}
          /\ output = EmptyDict
          /\ cache_file = cache_at_start

\* a process without the credential has exited beside a cache it never read
C10_Witness ==
    /\ pc = "exited"
    /\ ~API_KEY
    /\ cache_file.kind = "json"

\* the run read a cache file that was unreadable or unparseable
GarbageCacheLoaded ==
    /\ "cache_read" \in effects
    /\ cache_at_start.kind = "garbage"

\* C11: an unreadable or unparseable cache file is an absent cache:
\* load_daily_cache returns the empty snapshot, the run goes on to fetch, and
\* what it publishes and saves is the processor's result for the fetched games
\* alone, untouched by the merge
C11_GarbageCacheIsAbsent ==
    GarbageCacheLoaded =>
        /\ cached_data = EmptyDict
        /\ pc \in {"fetch", "publish", "done"}
        /\ (pc = "done" /\ games_data # <<>>) =>
              /\ final_data = process_home_run_props(games_data,
                                                     final_data.metadata.generated_at)
              /\ merge_with_cached_data(final_data, cached_data) = final_data
              /\ cache_file = save_daily_cache(final_data)

\* a run beside an unparseable cache file fetched games and replaced the file
C11_Witness ==
    /\ GarbageCacheLoaded
    /\ pc = "done"
    /\ games_data # <<>>
    /\ cache_file.kind = "json"

\* a raw game that process_home_run_props reads without a KeyError and retains
WellFormedWithMarket(game) == ~GameRaises(game) /\ HasHomeRunMarket(game)

\* C12: a game or outcome record that lacks a required field is skipped and the
\* run goes on: the processor returns a result that holds the record of every
\* well-formed game of its input
C12_MalformedRecordSkipped ==
    pc # "publish" =>
        /\ pc = "done"
        /\ \A i \in 1..Len(games_data) :
              WellFormedWithMarket(games_data[i]) =>
                  \E j \in 1..Len(final_data.games) :
                      final_data.games[j] = ProcessedGame(games_data[i])

SortedPlayers(data) ==
    \A g \in 1..Len(Get(data, "games", <<>>)) :
        LET players == data.games[g].players
        IN \A i, j \in 1..Len(players) :
              i < j => players[i].player_name <= players[j].player_name

\* C14: in every game of the processor's and the merge's result, of the loaded
\* and the saved cache and of every published file, live or cached, the players
\* are sorted ascending by player name
C14_PlayersSortedByName ==
    /\ SortedPlayers(final_data)
    /\ SortedPlayers(cached_data)
    /\ cache_file.kind = "json" => SortedPlayers(cache_file.doc)
    /\ \A file \in DOMAIN output : SortedPlayers(output[file])

\* a published merge with a cached and a fresh game of two players each, whose
\* outcomes the upstream lists in descending order of name
C14_Witness ==
    /\ pc = "done"
    /\ games_data # <<>>
    /\ games_data[1].bookmakers[1].markets[1].outcomes[1].description
          > games_data[1].bookmakers[1].markets[1].outcomes[3].description
    /\ \E i, j \in 1..Len(final_data.games) :
          /\ StatusOf(final_data.games[i]) = "cached"
          /\ StatusOf(final_data.games[j]) # "cached"
          /\ Len(final_data.games[i].players) >= 2
          /\ Len(final_data.games[j].players) >= 2

\* the odds of a side's individual_books, in list order
BookOdds(side) == [i \in 1..Len(side.individual_books) |-> side.individual_books[i].odds]

\* every stored consensus is the consensus of the book odds stored beside it
ConsensusDerived(data) ==
    \A g \in 1..Len(Get(data, "games", <<>>)) :
        \A i \in 1..Len(data.games[g].players) :
            \A side \in {"over_odds", "under_odds"} \cap DOMAIN data.games[g].players[i] :
                data.games[g].players[i][side].consensus
                    = consensus_odds(BookOdds(data.games[g].players[i][side]))

\* C15: for every player and side of every game of the published data, the
\* loaded and the saved cache and every published file, live or cached and
\* after any number of merges, the stored consensus is calculate_consensus_odds
\* of the odds of that side's individual_books
C15_ConsensusDerivedFromBooks ==
    /\ ConsensusDerived(final_data)
    /\ ConsensusDerived(cached_data)
    /\ cache_file.kind = "json" => ConsensusDerived(cache_file.doc)
    /\ \A file \in DOMAIN output : ConsensusDerived(output[file])

\* a published merge where a player's two-book consensus in a cached game
\* differs from the same player's in a fresh game, the price having moved
C15_Witness ==
    /\ pc = "done"
    /\ \E g, h \in 1..Len(Get(final_data, "games", <<>>)) :
          /\ StatusOf(final_data.games[g]) = "cached"
          /\ StatusOf(final_data.games[h]) # "cached"
          /\ Len(final_data.games[g].players[2].over_odds.individual_books) = 2
          /\ final_data.games[g].players[2].over_odds.consensus
                # final_data.games[h].players[2].over_odds.consensus

\* the prices the books quote for the player, in bookmaker order
QuotedPrices ==
    [b \in 1..Len(games_data[1].bookmakers) |->
        games_data[1].bookmakers[b].markets[1].outcomes[1].price]

\* the consensus the processor stored for the player
StoredConsensus == final_data.games[1].players[1].over_odds.consensus

\* C16: converting valid American odds to a probability and back gives the
\* same odds, +100 and -100 included
C16_RoundTripIsIdentity ==
    \A b \in 1..Len(QuotedPrices) :
        probability_to_american(american_to_probability(QuotedPrices[b])) = QuotedPrices[b]

\* C17: the consensus of no odds is 0 and the consensus of one book's odds is
\* those odds
C17_ConsensusOfNoneAndOne ==
    /\ calculate_consensus_odds(<<>>) = 0
    /\ (pc = "done" /\ Len(QuotedPrices) = 1) =>
          /\ StoredConsensus = calculate_consensus_odds(QuotedPrices)
          /\ StoredConsensus = QuotedPrices[1]

\* the implied probability of American odds as an exact fraction
ImpliedProbability(odds) ==
    IF odds > 0 THEN <<100, odds + 100>> ELSE <<Abs(odds), Abs(odds) + 100>>

\* p <= q for fractions with positive denominators
AtMost(p, q) == p[1] * q[2] <= q[1] * p[2]

\* C18: the implied probability of the consensus of a non-empty list lies
\* between the smallest and the largest implied probability of its elements,
\* the consensus being the conversion of the mean implied probability
C18_ConsensusWithinRange ==
    pc = "done" =>
        /\ StoredConsensus = calculate_consensus_odds(QuotedPrices)
        /\ \E b \in 1..Len(QuotedPrices) :
              AtMost(ImpliedProbability(QuotedPrices[b]), ImpliedProbability(StoredConsensus))
        /\ \E b \in 1..Len(QuotedPrices) :
              AtMost(ImpliedProbability(StoredConsensus), ImpliedProbability(QuotedPrices[b]))

\* the player has a consensus on both sides
TwoSided(player) ==
    /\ {"over_odds", "under_odds"} \subseteq DOMAIN player
    /\ player.over_odds.consensus # 0
    /\ player.under_odds.consensus # 0

\* the players of the published data, each as <<game, place in the game>>
PublishedPlayers ==
    {<<g, i>> \in (1..Len(final_data.games)) \X (1..MaxPlayers) :
        i <= Len(final_data.games[g].players)}

\* the entries of the best-odds file for the player at place gi
BestOddsEntries(gi) ==
    LET game == final_data.games[gi[1]]
        best == output.best_odds.players
    IN {b \in 1..Len(best) :
          /\ best[b].player_name = game.players[gi[2]].player_name
          /\ best[b].game_info = <<game.away_team, " @ ", game.home_team>>}

\* the player at place gi is in the full, the summary and the players file
InOtherExports(gi) ==
    LET game == final_data.games[gi[1]]
        player == game.players[gi[2]]
    IN /\ output.full.games[gi[1]].players[gi[2]] = player
       /\ output.summary.games[gi[1]].players[gi[2]].player_name = player.player_name
       /\ \E k \in 1..Len(output.players.players) :
             /\ output.players.players[k].player_name = player.player_name
             /\ output.players.players[k].game_context.game_id = game.game_id

\* C19: the best-odds file lists exactly the players with a consensus on both
\* sides, a player lacking a side being still in the full, the summary and the
\* players file, and lists them by descending value_score and, among equal
\* scores, by ascending player name
C19_BestOddsFiltersAndRanks ==
    (pc = "done" /\ "best_odds" \in DOMAIN output) =>
        LET best == output.best_odds.players
        IN /\ \A gi \in PublishedPlayers :
                 IF TwoSided(final_data.games[gi[1]].players[gi[2]])
                 THEN BestOddsEntries(gi) # {}
                 ELSE BestOddsEntries(gi) = {} /\ InOtherExports(gi)
           /\ Len(best) = Cardinality({gi \in PublishedPlayers :
                                TwoSided(final_data.games[gi[1]].players[gi[2]])})
           /\ \A i, j \in 1..Len(best) :
                 i < j => \/ best[i].value_score > best[j].value_score
                          \/ /\ best[i].value_score = best[j].value_score
                             /\ best[i].player_name <= best[j].player_name

\* a published feed whose first player has one side only and is left out, and
\* whose other two players are listed with the later name first for its
\* higher score
C19_Witness ==
    /\ pc = "done"
    /\ "best_odds" \in DOMAIN output
    /\ Len(final_data.games) = 1
    /\ Len(final_data.games[1].players) = 3
    /\ ~TwoSided(final_data.games[1].players[1])
    /\ Len(output.best_odds.players) = 2
    /\ output.best_odds.players[1].player_name > output.best_odds.players[2].player_name
    /\ output.best_odds.players[1].value_score > output.best_odds.players[2].value_score

\* the summary derived from the full export of the data is the summary of the data
SummaryOfFullIsSummary(data) ==
    create_summary_dataset(create_full_dataset(data)) = create_summary_dataset(data)

\* C20: for the data a run publishes, processed or merged, for the cache it
\* loaded and for the cache on disk, the summary derived from the full export
\* equals the summary derived from the data, in metadata, summary and games;
\* so the summary of the published full file is the published summary file
C20_SummaryOfFullExport ==
    /\ final_data # NoData => SummaryOfFullIsSummary(final_data)
    /\ cached_data # EmptyDict => SummaryOfFullIsSummary(cached_data)
    /\ cache_file.kind = "json" => SummaryOfFullIsSummary(cache_file.doc)
    /\ "summary" \in DOMAIN output => create_summary_dataset(output.full) = output.summary

\* a published merge of a cached game that carries its last_updated stamp and
\* a live game, both with players
C20_Witness ==
    /\ pc = "done"
    /\ "summary" \in DOMAIN output
    /\ \E i, j \in 1..Len(final_data.games) :
          /\ StatusOf(final_data.games[i]) = "cached"
          /\ "last_updated" \in DOMAIN output.summary.games[i]
          /\ StatusOf(final_data.games[j]) = "live"
          /\ output.summary.games[i].player_count >= 2
          /\ output.summary.games[j].player_count >= 2

\* the ids of the games of a file or a structure, in list order
IdsInOrder(data) == [g \in 1..Len(data.games) |-> data.games[g].game_id]

AbsentFromFetch == {i \in 1..Len(Get(cached_data, "games", <<>>)) :
                       cached_data.games[i].game_id \notin FetchedIds}

\* C22: a game of the prior snapshot that is absent from the fresh fetch is in
\* the merge's result with the id, players and odds it had in the snapshot,
\* with status cached and last_updated the snapshot's generated_at, and the
\* snapshot passed in is as it was loaded
C22_AbsentGameFrozen ==
    (pc = "done" /\ games_data # <<>> /\ cached_data # EmptyDict) =>
        /\ cached_data = load_daily_cache(cache_at_start, today_str * DayLen)
        /\ \A i \in AbsentFromFetch :
              \E g \in 1..Len(final_data.games) :
                  final_data.games[g] =
                      Put(Put(cached_data.games[i], "odds_status", "cached"),
                          "last_updated", cached_data.metadata.generated_at)

\* a merge that kept a cached game whose prices have since moved upstream
C22_Witness ==
    /\ pc = "done"
    /\ games_data # <<>>
    /\ cached_data # EmptyDict
    /\ AbsentFromFetch # {}
    /\ \E i \in AbsentFromFetch :
          /\ cached_data.games[i].players # <<>>
          /\ cached_data.metadata.generated_at < final_data.metadata.generated_at

\* the distinct players of a processed game, whatever the lines they have
PlayerNames(game) == {game.players[i].player_name : i \in 1..Len(game.players)}

\* C23: the processor's summary counts the input games as total_games, the
\* games of its output as games_with_props, and as total_players the distinct
\* players of each retained game, a player offered at several lines in one
\* game counting once
C23_SummaryCounters ==
    (pc = "done" /\ games_data # <<>> /\ cached_data = EmptyDict) =>
        /\ final_data.summary.total_games = Len(games_data)
        /\ final_data.summary.games_with_props = Len(final_data.games)
        /\ final_data.summary.total_players =
               SumSeq([g \in 1..Len(final_data.games) |->
                          Cardinality(PlayerNames(final_data.games[g]))])

RECURSIVE CommonDivisor(_, _)
CommonDivisor(a, b) == IF b = 0 THEN a ELSE CommonDivisor(b, a % b)

\* the fraction p in lowest terms
Lowest(p) == <<p[1] \div CommonDivisor(p[1], p[2]), p[2] \div CommonDivisor(p[1], p[2])>>

\* the exact sum of the implied probabilities of a list of odds
RECURSIVE SumOfImplied(_)
SumOfImplied(odds_list) ==
    IF odds_list = <<>> THEN <<0, 1>>
    ELSE LET p == Lowest(ImpliedProbability(Head(odds_list)))
             q == SumOfImplied(Tail(odds_list))
         IN Lowest(<<p[1] * q[2] + q[1] * p[2], p[2] * q[2]>>)

\* the exact mean of the implied probabilities of a non-empty list of odds
MeanOfImplied(odds_list) ==
    Lowest(<<SumOfImplied(odds_list)[1], SumOfImplied(odds_list)[2] * Len(odds_list)>>)

\* the integer n is a nearest integer to the fraction v of positive denominator
Nearest(n, v) == 2 * Abs(n * v[2] - v[1]) <= v[2]

\* C24: for the mean p of the implied probabilities of the quoted odds,
\* probability_to_american gives the integer nearest to -p*100/(1-p) when
\* p >= 0.5 and the integer nearest to (1-p)*100/p when p < 0.5
C24_RoundsToNearest ==
    pc = "done" =>
        LET p == MeanOfImplied(QuotedPrices)
            odds == probability_to_american(
                        avg_probability([b \in 1..Len(QuotedPrices) |->
                                            american_to_probability(QuotedPrices[b])]))
        IN IF 2 * p[1] >= p[2]
           THEN Nearest(odds, <<0 - 100 * p[1], p[2] - p[1]>>)
           ELSE Nearest(odds, <<100 * (p[2] - p[1]), p[1]>>)

\* the processed player that the best-odds entry is about
PlayerOfEntry(entry) ==
    CHOOSE player \in UNION {Range(final_data.games[g].players) :
                                g \in 1..Len(final_data.games)} :
        /\ player.player_name = entry.player_name
        /\ player.line_display = entry.line_display
        /\ ConsensusOf(player, "over_odds") = entry.consensus_odds.yes
        /\ ConsensusOf(player, "under_odds") = entry.consensus_odds.no

\* best is the highest price of books, under the name of the first book that has it
IsFirstHighest(best, books) ==
    \E i \in 1..Len(books) :
        /\ best = [odds |-> books[i].odds, sportsbook |-> books[i].sportsbook]
        /\ \A j \in 1..Len(books) : books[j].odds <= books[i].odds
        /\ \A j \in 1..(i - 1) : books[j].odds < books[i].odds

\* C25: in the best-odds export the best price of each side of a player is the
\* highest odds among the side's individual_books, and of several books with
\* that price the reported sportsbook is the first in individual_books
C25_BestPriceIsFirstHighest ==
    (pc = "done" /\ "best_odds" \in DOMAIN output) =>
        \A e \in 1..Len(output.best_odds.players) :
            LET entry == output.best_odds.players[e]
            IN /\ IsFirstHighest(entry.best_odds.yes,
                                 PlayerOfEntry(entry).over_odds.individual_books)
               /\ IsFirstHighest(entry.best_odds.no,
                                 PlayerOfEntry(entry).under_odds.individual_books)

\* a best-odds entry of a player whose two books share the highest Over price,
\* beside one whose only book has both sides
C25_Witness ==
    /\ pc = "done"
    /\ "best_odds" \in DOMAIN output
    /\ Len(output.best_odds.players) >= 2
    /\ \E e \in 1..Len(output.best_odds.players) :
          LET books == PlayerOfEntry(output.best_odds.players[e]).over_odds.individual_books
          IN /\ Len(books) = 2
             /\ books[1].odds = books[2].odds
             /\ books[1].sportsbook # books[2].sportsbook

\* the value_score of the best-odds entries, in file order
ValueScores ==
    [e \in 1..Len(output.best_odds.players) |-> output.best_odds.players[e].value_score]

\* C26: in the best-odds export a player's value_score is the magnitude of the
\* yes-side consensus if that exceeds +150, else the magnitude of the no-side
\* consensus if that exceeds +150, else 0; so it is 0 or above 150, and
\* high_value_bets is the number of entries with a value_score above 200
C26_ValueScore ==
    (pc = "done" /\ "best_odds" \in DOMAIN output) =>
        /\ \A e \in 1..Len(ValueScores) :
              LET player == PlayerOfEntry(output.best_odds.players[e])
                  yes == player.over_odds.consensus
                  no == player.under_odds.consensus
              IN /\ yes > 150 => ValueScores[e] = Abs(yes)
                 /\ (yes <= 150 /\ no > 150) => ValueScores[e] = Abs(no)
                 /\ (yes <= 150 /\ no <= 150) => ValueScores[e] = 0
                 /\ ValueScores[e] = 0 \/ ValueScores[e] > 150
        /\ output.best_odds.summary.high_value_bets =
               Cardinality({e \in 1..Len(ValueScores) : ValueScores[e] > 200})

\* entries with a value_score of 0, of the no side, and above 200 in one file
C26_Witness ==
    /\ pc = "done"
    /\ "best_odds" \in DOMAIN output
    /\ \E a, b, c \in 1..Len(ValueScores) :
          /\ ValueScores[a] > 200
          /\ ValueScores[b] > 150 /\ ValueScores[b] <= 200
          /\ ValueScores[b] = Abs(output.best_odds.players[b].consensus_odds.no)
          /\ ValueScores[c] = 0
    /\ output.best_odds.summary.high_value_bets = 1

\* the games that were already cached in the loaded snapshot and that this
\* run's fetch did not return either
StillCached == {i \in AbsentFromFetch : StatusOf(cached_data.games[i]) = "cached"}

\* C27: a game that stays cached over consecutive runs of a day keeps its
\* last_updated: a run whose fetch lacks the game does not advance it past the
\* generation time of the last run that fetched the game
C27_LastUpdatedDoesNotAdvance ==
    (pc = "done" /\ games_data # <<>> /\ cached_data # EmptyDict) =>
        \A i \in StillCached :
            \A g \in 1..Len(final_data.games) :
                final_data.games[g].game_id = cached_data.games[i].game_id =>
                    final_data.games[g].last_updated = cached_data.games[i].last_updated

\* C28: the summary of a merge with a non-empty prior snapshot has live_games
\* and cached_games adding up to total_games, total_games and games_with_props
\* both the number of merged games, and total_players the number of players
\* in the player lists of the merged games
C28_MergedSummary ==
    (/\ pc = "done"
     /\ games_data # <<>>
     /\ Get(cached_data, "games", <<>>) # <<>>) =>
        /\ final_data.summary.live_games + final_data.summary.cached_games
               = final_data.summary.total_games
        /\ final_data.summary.total_games = Len(final_data.games)
        /\ final_data.summary.games_with_props = Len(final_data.games)
        /\ final_data.summary.total_players =
               SumSeq([g \in 1..Len(final_data.games) |->
                          Len(final_data.games[g].players)])

\* the ids of the games the processor retained of this run's fetch, in fetch order
FreshIds ==
    LET retained == SelectSeq(games_data, HasHomeRunMarket)
    IN [i \in 1..Len(retained) |-> retained[i].id]

\* no id occurs twice in the list
NoRepeat(ids) == \A i, j \in 1..Len(ids) : ids[i] = ids[j] => i = j

\* C29: when no id occurs twice in the prior snapshot or in the fresh fetch,
\* the merged list has no id twice, its ids are those of the prior snapshot
\* and of the fetch together, the games of the prior snapshot come first in
\* the order they had, and the games new in the fetch follow in fetch order
C29_MergedOrder ==
    (/\ pc = "done"
     /\ games_data # <<>>
     /\ Get(cached_data, "games", <<>>) # <<>>
     /\ NoRepeat(IdsInOrder(cached_data))
     /\ NoRepeat(FreshIds)) =>
        /\ NoRepeat(IdsInOrder(final_data))
        /\ Range(IdsInOrder(final_data)) = Range(IdsInOrder(cached_data)) \cup Range(FreshIds)
        /\ IdsInOrder(final_data) =
               IdsInOrder(cached_data)
               \o SelectSeq(FreshIds, LAMBDA id : id \notin Range(IdsInOrder(cached_data)))

\* a merge that puts a game new in the fetch after a game of the prior
\* snapshot that the fetch lists behind it
C29_Witness ==
    /\ pc = "done"
    /\ games_data # <<>>
    /\ Get(cached_data, "games", <<>>) # <<>>
    /\ NoRepeat(IdsInOrder(cached_data))
    /\ FreshIds = <<"A", "B">>
    /\ IdsInOrder(final_data) = <<"B", "A">>

\* C30: the consensus of a non-empty list of nonzero American odds is an
\* integer of magnitude at least 100, never 0, so the best-odds exporter's
\* nonzero test leaves out a player only when one of his sides is missing
C30_ConsensusAtLeastHundred ==
    pc = "done" =>
        /\ StoredConsensus = calculate_consensus_odds(QuotedPrices)
        /\ Abs(StoredConsensus) >= 100
        /\ \A side \in {"over_odds", "under_odds"} \cap DOMAIN final_data.games[1].players[1] :
              Abs(final_data.games[1].players[1][side].consensus) >= 100
        /\ "best_odds" \in DOMAIN output =>
              (output.best_odds.players = <<>>
                  <=> "under_odds" \notin DOMAIN final_data.games[1].players[1])

\* two books at +100 and -100, the consensus at even money, and the player
\* in the best-odds file with both sides
C30_Witness ==
    /\ pc = "done"
    /\ QuotedPrices = <<100, 0 - 100>>
    /\ Abs(StoredConsensus) = 100
    /\ "best_odds" \in DOMAIN output
    /\ Len(output.best_odds.players) = 1
    /\ output.best_odds.players[1].consensus_odds.no = 0 - 100


====
